---------------------------- MODULE Spec2Model ----------------------------
(***************************************************************************)
(* Net worth tracker: the snapshot builder (src/app.py compute_snapshot),  *)
(* the holdings editor of the sidebar, the price lookups                   *)
(* (src/services/prices.py) and the snapshot store kept as one JSON file   *)
(* behind the GitHub contents API (src/services/database.py).              *)
(*                                                                         *)
(* Money is fixed point.  A price is a whole number of cents (prices.py    *)
(* rounds every price to 2 decimals), a quantity of shares or coins is a   *)
(* whole number of tenths, so price * quantity is a number of mills        *)
(* (thousandths of a dollar).  Every value, cash amount and total is a     *)
(* number of mills; round(x, 2) rounds mills to a multiple of Cent, ties   *)
(* to the even cent as Python's round does on an exactly representable     *)
(* value (round(0.125, 2) = 0.12, round(0.375, 2) = 0.38).                 *)
(***************************************************************************)
EXTENDS Integers, Sequences, FiniteSets, TLC

VARIABLES
    holdings,   \* content of holdings.json
    phase,      \* position of the script run of the builder: "edit" | "computed"
    result,     \* what compute_snapshot was given and what it returned
    file,       \* snapshots.json on the remote: [exists, content]
    pc,         \* position of each process in its refresh
    loc,        \* locals of each process' refresh and save_snapshot call
    log,        \* HTTP requests each process issued in its current call
    before,     \* the remote file as it was when each process' refresh began
    lastSaved,  \* per date, the values of the most recent successful save
    ret         \* what the last get_latest_snapshot / get_all_snapshots returned

vars == <<holdings, phase, result, file, pc, loc, log, before, lastSaved, ret>>

\* Python's None; a value that may be None is <<v>> when present
None == <<>>

\* ------------------------------------------------------------------ bounds

MaxItems == 3       \* line items in holdings.json, all categories together
MaxDay == 2         \* calendar days the snapshots are dated with

\* one cent in mills: round(x, 2) keeps whole cents
Cent == 10

Tickers == {"AAPL", "VOO"}
ShareChoices == {5, 10}            \* tenths of a share: 0.5 and 1 share
CoinIds == {"bitcoin", "ethereum"}
CoinSymbols == {"BTC", "ETH"}
CoinAmounts == {5}                 \* tenths of a coin
CashLabels == {"Checking", "Savings"}
CashAmounts == {125, 1000}         \* mills: $0.125 and $1.00
StockPriceChoices == {25}          \* cents
CryptoPriceChoices == {25}         \* cents

\* ------------------------------------------------------- sequence helpers

RECURSIVE SeqSum(_)
SeqSum(s) == IF s = <<>> THEN 0 ELSE s[1] + SeqSum(Tail(s))

Remove(s, i) == [j \in 1..(Len(s) - 1) |-> IF j < i THEN s[j] ELSE s[j + 1]]

\* d[k] = v, as a Python dict assignment: a new key or an overwrite
Assign(d, k, v) == [x \in (DOMAIN d) \cup {k} |-> IF x = k THEN v ELSE d[x]]

EmptyDict == [x \in {} |-> 0]

\* the dict left by assigning the <<key, value>> pairs in order
RECURSIVE DictOf(_)
DictOf(pairs) ==
    IF pairs = <<>> THEN EmptyDict
    ELSE LET n == Len(pairs)
         IN Assign(DictOf(SubSeq(pairs, 1, n - 1)), pairs[n][1], pairs[n][2])

Values(pairs) == [i \in 1..Len(pairs) |-> pairs[i][2]]

\* --------------------------------------------------------------- rounding

\* round(x, 2) on x >= 0 mills: nearest cent, a tie to the even cent
RoundCents(x) ==
    LET q == x \div Cent
        r == x % Cent
    IN IF 2 * r < Cent THEN q * Cent
       ELSE IF 2 * r > Cent THEN (q + 1) * Cent
       ELSE IF q % 2 = 0 THEN q * Cent ELSE (q + 1) * Cent

\* ----------------------------------------------------------- price lookups

\* every dict a lookup for `keys` can return: a price for some of the keys
PriceMaps(keys, choices) ==
    UNION {[ks -> choices] : ks \in SUBSET keys}

\* get_stock_prices / get_crypto_prices: {} for no input; otherwise the prices
\* that were filled in: any of the keys may be left out (no column, NaN, no
\* "usd"), and an exception inside the try stops the filling before the last
\* key is priced (the except clause prints and the function returns `prices`
\* all the same).  An outcome is [failed, prices].
PriceLookups(keys, choices) ==
    IF keys = {} THEN {[failed |-> FALSE, prices |-> EmptyDict]}
    ELSE {[failed |-> FALSE, prices |-> m] : m \in PriceMaps(keys, choices)}
         \cup {[failed |-> TRUE, prices |-> m] :
                  m \in {x \in PriceMaps(keys, choices) : DOMAIN x # keys}}

GetStockPrices(tickers) == PriceLookups(tickers, StockPriceChoices)

GetCryptoPrices(ids) == PriceLookups(ids, CryptoPriceChoices)

\* ------------------------------------------------------- compute_snapshot

\* prices.get(key, 0.0)
PriceGetOrDollar(prices, key) == IF key \in DOMAIN prices THEN prices[key] ELSE 100
PriceGet(prices, key) == IF key \in DOMAIN prices THEN prices[key] ELSE 0

\* round(price * quantity, 2)
ItemValueUnrounded(price, qty) == price * qty
ItemValue(price, qty) == RoundCents(price * qty)

StockTickers(h) == {h.stocks[i].ticker : i \in DOMAIN h.stocks}
EtfTickers(h) == {h.etfs[i].ticker : i \in DOMAIN h.etfs}
AllTickers(h) == StockTickers(h) \cup EtfTickers(h)
CryptoIds(h) == {h.crypto[i].id : i \in DOMAIN h.crypto}

\* the (key, value) assignments of each loop, in order
SharePairs(items, prices) ==
    [i \in 1..Len(items) |->
        <<items[i].ticker, ItemValue(PriceGet(prices, items[i].ticker), items[i].shares)>>]

CryptoPairs(items, prices) ==
    [i \in 1..Len(items) |->
        <<items[i].symbol, ItemValue(PriceGet(prices, items[i].id), items[i].amount)>>]

CashPairs(items) == [i \in 1..Len(items) |-> <<items[i].label, items[i].amount>>]

GrandTotal(s, e, c, k) == RoundCents(s + e + c + k)

\* a holding lacking a field the loops index raises KeyError
WellFormed(h) ==
    /\ \A i \in DOMAIN h.stocks : {"ticker", "shares"} \subseteq DOMAIN h.stocks[i]
    /\ \A i \in DOMAIN h.etfs : {"ticker", "shares"} \subseteq DOMAIN h.etfs[i]
    /\ \A i \in DOMAIN h.crypto : {"id", "symbol", "amount"} \subseteq DOMAIN h.crypto[i]
    /\ \A i \in DOMAIN h.cash : {"label", "amount"} \subseteq DOMAIN h.cash[i]

ComputeSnapshot(h, prices, crypto_prices) ==
    LET sp == SharePairs(h.stocks, prices)
        ep == SharePairs(h.etfs, prices)
        cp == CryptoPairs(h.crypto, crypto_prices)
        kp == CashPairs(h.cash)
        stocks_total == SeqSum(Values(sp))
        etfs_total == SeqSum(Values(ep))
        crypto_total == SeqSum(Values(cp))
        cash_total == SeqSum(Values(kp))
    IN [total |-> GrandTotal(stocks_total, etfs_total, crypto_total, cash_total),
        breakdown |->
            [stocks |-> DictOf(sp),
             etfs |-> DictOf(ep),
             crypto |-> DictOf(cp),
             cash |-> DictOf(kp),
             category_totals |->
                [stocks |-> RoundCents(stocks_total),
                 etfs |-> RoundCents(etfs_total),
                 crypto |-> RoundCents(crypto_total),
                 cash |-> RoundCents(cash_total)]]]

\* ------------------------------------------------------- holdings editor

EmptyHoldings == [stocks |-> <<>>, etfs |-> <<>>, crypto |-> <<>>, cash |-> <<>>]

NumItems(h) == Len(h.stocks) + Len(h.etfs) + Len(h.crypto) + Len(h.cash)

Editing == phase = "edit" /\ UNCHANGED <<phase, result>>

AddStock ==
    /\ Editing /\ NumItems(holdings) < MaxItems
    /\ \E t \in Tickers, n \in ShareChoices :
        holdings' = [holdings EXCEPT !.stocks = Append(@, [ticker |-> t, shares |-> n])]

AddEtf ==
    /\ Editing /\ NumItems(holdings) < MaxItems
    /\ \E t \in Tickers, n \in ShareChoices :
        holdings' = [holdings EXCEPT !.etfs = Append(@, [ticker |-> t, shares |-> n])]

AddCrypto ==
    /\ Editing /\ NumItems(holdings) < MaxItems
    /\ \E c \in CoinIds, s \in CoinSymbols, a \in CoinAmounts :
        holdings' = [holdings EXCEPT
                        !.crypto = Append(@, [id |-> c, symbol |-> s, amount |-> a])]

AddCash ==
    /\ Editing /\ NumItems(holdings) < MaxItems
    /\ \E l \in CashLabels, a \in CashAmounts :
        holdings' = [holdings EXCEPT !.cash = Append(@, [label |-> l, amount |-> a])]

EditCash ==
    /\ Editing
    /\ \E i \in DOMAIN holdings.cash, a \in CashAmounts :
        /\ a # holdings.cash[i].amount
        /\ holdings' = [holdings EXCEPT !.cash[i].amount = a]

DeleteStock ==
    /\ Editing
    /\ \E i \in DOMAIN holdings.stocks :
        holdings' = [holdings EXCEPT !.stocks = Remove(@, i)]

DeleteEtf ==
    /\ Editing
    /\ \E i \in DOMAIN holdings.etfs :
        holdings' = [holdings EXCEPT !.etfs = Remove(@, i)]

DeleteCrypto ==
    /\ Editing
    /\ \E i \in DOMAIN holdings.crypto :
        holdings' = [holdings EXCEPT !.crypto = Remove(@, i)]

DeleteCash ==
    /\ Editing
    /\ \E i \in DOMAIN holdings.cash :
        holdings' = [holdings EXCEPT !.cash = Remove(@, i)]

\* the builder run on the holdings as they are, with whatever the lookups return
Compute ==
    /\ phase = "edit"
    /\ \E sl \in GetStockPrices(AllTickers(holdings)),
          cl \in GetCryptoPrices(CryptoIds(holdings)) :
        result' = [holdings |-> holdings,
                   prices |-> sl.prices,
                   crypto_prices |-> cl.prices,
                   out |-> ComputeSnapshot(holdings, sl.prices, cl.prices)]
    /\ phase' = "computed"
    /\ UNCHANGED holdings

\* the next script run starts over: nothing of the last computation is kept
Rerun ==
    /\ phase = "computed"
    /\ phase' = "edit"
    /\ result' = None
    /\ UNCHANGED holdings


\* ---------------------------------------------------------- snapshot store

Procs == {"w1", "w2"}
Dates == 1..MaxDay

\* snapshots.json before its first write: the contents API answers 404
NoFile == [exists |-> FALSE, content |-> <<>>]

\* the version token of a file: the hash of its content
Sha(content) == <<"sha", content>>

\* statuses of the contents API; 0 stands for a request that raised without a
\* response (connection error)
GetErrorStatuses == {0, 401}
PutErrorStatuses == {0, 401}

\* GET /contents/snapshots.json: what the remote can answer
RemoteGet(f) ==
    {[status |-> st, content |-> <<>>, sha |-> None] : st \in GetErrorStatuses}
    \cup (IF f.exists
          THEN {[status |-> 200, content |-> f.content, sha |-> Sha(f.content)]}
          ELSE {[status |-> 404, content |-> <<>>, sha |-> None]})

\* PUT /contents/snapshots.json: the remote applies the write only when the
\* token names the version it holds (none for a file that does not exist),
\* answers 409 otherwise, and may fail for reasons of its own.  An outcome is
\* [status, file], the file as the remote holds it afterwards.
RemotePut(f, token, content) ==
    {[status |-> st, file |-> f] : st \in PutErrorStatuses}
    \cup (IF token = (IF f.exists THEN Sha(f.content) ELSE None)
          THEN {[status |-> IF f.exists THEN 200 ELSE 201,
                 file |-> [exists |-> TRUE, content |-> content]]}
          ELSE {[status |-> 409, file |-> f]})

\* resp.raise_for_status(): raises on 4xx and 5xx (and nothing came back on 0)
RaisesUnless200(status) == status # 200
RaiseForStatus(status) == status = 0 \/ status >= 400

\* _fetch_file: 404 is the empty store with no token, before raise_for_status
FetchRaisesNever(status) == FALSE
FetchRaises(status) == status # 404 /\ RaiseForStatus(status)

\* _write_file: payload["sha"] = sha only `if sha`
PayloadShaOmitted(sha) == None
PayloadSha(sha) == sha

\* _write_file raises after the PUT
WriteRaises(status) == RaiseForStatus(status)

\* list.sort(key=date) / sorted(key=date): stable, ascending
RECURSIVE InsertByDate(_, _)
InsertByDate(s, x) ==
    IF s = <<>> THEN <<x>>
    ELSE IF s[Len(s)].date <= x.date THEN Append(s, x)
    ELSE Append(InsertByDate(SubSeq(s, 1, Len(s) - 1), x), s[Len(s)])

RECURSIVE SortByDate(_)
SortByDate(s) ==
    IF s = <<>> THEN <<>>
    ELSE InsertByDate(SortByDate(SubSeq(s, 1, Len(s) - 1)), s[Len(s)])

\* [s for s in snapshots if s["date"] != date]
KeepAll(s, date) == s
SameDateOnly(s, date) == SelectSeq(s, LAMBDA x : x.date = date)
OtherDates(s, date) == SelectSeq(s, LAMBDA x : x.date # date)

\* the list save_snapshot writes back
Upserted(snapshots, date, total_value, breakdown) ==
    SortByDate(Append(OtherDates(snapshots, date),
                      [date |-> date, total_value |-> total_value,
                       breakdown |-> breakdown]))

GetAllSnapshots(snapshots) == SortByDate(snapshots)

FirstOfSorted(snapshots) ==
    IF snapshots = <<>> THEN None ELSE <<SortByDate(snapshots)[1]>>
GetLatestSnapshot(snapshots) ==
    IF snapshots = <<>> THEN None
    ELSE <<SortByDate(snapshots)[Len(SortByDate(snapshots))]>>

\* ------------------------------------------------ refresh button handler

InitLoc == [holdings |-> None, price_failed |-> FALSE, date |-> None,
            total |-> None, breakdown |-> None, snapshots |-> None, sha |-> None]

\* the locals are gone once the handler has returned or raised; what stays is
\* whether a price lookup of this refresh had failed
Ended(l) == [InitLoc EXCEPT !.price_failed = l.price_failed]

\* holdings = load_holdings()
LoadHoldings(p) ==
    /\ pc[p] = "idle"
    /\ pc' = [pc EXCEPT ![p] = "loaded"]
    /\ loc' = [loc EXCEPT ![p].holdings = holdings]
    /\ before' = [before EXCEPT ![p] = file]
    /\ UNCHANGED <<holdings, phase, result, file, log, lastSaved, ret>>

\* open() or json.load raises
LoadHoldingsFails(p) ==
    /\ pc[p] = "idle"
    /\ pc' = [pc EXCEPT ![p] = "failed"]
    /\ before' = [before EXCEPT ![p] = file]
    /\ UNCHANGED <<holdings, phase, result, file, loc, log, lastSaved, ret>>

\* total, breakdown = compute_snapshot(holdings); date.today().isoformat()
ComputeStep(p) ==
    /\ pc[p] = "loaded"
    /\ WellFormed(loc[p].holdings)
    /\ \E sl \in GetStockPrices(AllTickers(loc[p].holdings)),
          cl \in GetCryptoPrices(CryptoIds(loc[p].holdings)),
          today \in Dates :
        LET out == ComputeSnapshot(loc[p].holdings, sl.prices, cl.prices)
        IN loc' = [loc EXCEPT ![p].price_failed = sl.failed \/ cl.failed,
                              ![p].date = today,
                              ![p].total = out.total,
                              ![p].breakdown = out.breakdown]
    /\ pc' = [pc EXCEPT ![p] = "computed"]
    /\ UNCHANGED <<holdings, phase, result, file, log, before, lastSaved, ret>>

\* a holding without a required field: KeyError inside compute_snapshot
ComputeFails(p) ==
    /\ pc[p] = "loaded"
    /\ ~WellFormed(loc[p].holdings)
    /\ pc' = [pc EXCEPT ![p] = "failed"]
    /\ UNCHANGED <<holdings, phase, result, file, loc, log, before, lastSaved, ret>>

\* save_snapshot, first half: snapshots, sha = _fetch_file()
FetchFile(p) ==
    /\ pc[p] = "computed"
    /\ \E resp \in RemoteGet(file) :
        /\ log' = [log EXCEPT ![p] = Append(@, [op |-> "GET", status |-> resp.status,
                                                 sha |-> resp.sha])]
        /\ IF FetchRaises(resp.status)
           THEN /\ pc' = [pc EXCEPT ![p] = "failed"]
                /\ loc' = [loc EXCEPT ![p] = Ended(@)]
           ELSE /\ pc' = [pc EXCEPT ![p] = "fetched"]
                /\ loc' = [loc EXCEPT ![p].snapshots = resp.content,
                                      ![p].sha = resp.sha]
    /\ UNCHANGED <<holdings, phase, result, file, before, lastSaved, ret>>

\* save_snapshot, second half: filter, append, sort, _write_file(snapshots, sha)
WriteFile(p) ==
    /\ pc[p] = "fetched"
    /\ LET content == Upserted(loc[p].snapshots, loc[p].date, loc[p].total,
                               loc[p].breakdown)
           token == PayloadSha(loc[p].sha)
       IN \E resp \in RemotePut(file, token, content) :
            /\ log' = [log EXCEPT ![p] = Append(@, [op |-> "PUT", status |-> resp.status,
                                                     sha |-> token])]
            /\ file' = resp.file
            /\ lastSaved' =
                 IF resp.status \in {200, 201}
                 THEN [lastSaved EXCEPT ![loc[p].date] =
                          <<[total_value |-> loc[p].total, breakdown |-> loc[p].breakdown]>>]
                 ELSE lastSaved
            /\ pc' = [pc EXCEPT ![p] = IF WriteRaises(resp.status) THEN "failed" ELSE "done"]
    /\ loc' = [loc EXCEPT ![p] = Ended(@)]
    /\ UNCHANGED <<holdings, phase, result, before, ret>>

\* the script run ends (st.success or the exception shown); the next click
\* starts a new refresh
Return(p) ==
    /\ pc[p] \in {"done", "failed"}
    /\ pc' = [pc EXCEPT ![p] = "idle"]
    /\ loc' = [loc EXCEPT ![p] = InitLoc]
    /\ log' = [log EXCEPT ![p] = <<>>]
    /\ before' = [before EXCEPT ![p] = NoFile]
    /\ UNCHANGED <<holdings, phase, result, file, lastSaved, ret>>

\* latest = get_latest_snapshot()
GetLatestSnapshotCall ==
    /\ \E resp \in RemoteGet(file) :
        ret' = IF FetchRaises(resp.status)
               THEN [op |-> "latest", raised |-> TRUE, status |-> resp.status,
                     seen |-> <<>>, value |-> None]
               ELSE [op |-> "latest", raised |-> FALSE, status |-> resp.status,
                     seen |-> resp.content, value |-> GetLatestSnapshot(resp.content)]
    /\ UNCHANGED <<holdings, phase, result, file, pc, loc, log, before, lastSaved>>

\* all_snapshots = get_all_snapshots()
GetAllSnapshotsCall ==
    /\ \E resp \in RemoteGet(file) :
        ret' = IF FetchRaises(resp.status)
               THEN [op |-> "all", raised |-> TRUE, status |-> resp.status,
                     seen |-> <<>>, value |-> None]
               ELSE [op |-> "all", raised |-> FALSE, status |-> resp.status,
                     seen |-> resp.content, value |-> GetAllSnapshots(resp.content)]
    /\ UNCHANGED <<holdings, phase, result, file, pc, loc, log, before, lastSaved>>

\* ---------------------------------------------------------- specifications

\* holdings.json as the refresh finds it: a priced stock with sub-cent cash,
\* a lone crypto position, and a hand-edited file whose stock lacks "shares"
SampleHoldings ==
    {[stocks |-> <<[ticker |-> "AAPL", shares |-> 10]>>, etfs |-> <<>>,
      crypto |-> <<>>, cash |-> <<[label |-> "Checking", amount |-> 125]>>],
     [stocks |-> <<>>, etfs |-> <<>>,
      crypto |-> <<[id |-> "bitcoin", symbol |-> "BTC", amount |-> 5]>>, cash |-> <<>>],
     [stocks |-> <<[ticker |-> "AAPL"]>>, etfs |-> <<>>, crypto |-> <<>>, cash |-> <<>>]}

StoreInit ==
    /\ file = NoFile
    /\ pc = [p \in Procs |-> "idle"]
    /\ loc = [p \in Procs |-> InitLoc]
    /\ log = [p \in Procs |-> <<>>]
    /\ before = [p \in Procs |-> NoFile]
    /\ lastSaved = [d \in Dates |-> None]
    /\ ret = None

\* one user: refreshes and page loads of a single process, as the app is run
Init ==
    /\ holdings \in SampleHoldings
    /\ phase = "edit"
    /\ result = None
    /\ StoreInit

Next ==
    \/ LoadHoldings("w1")
    \/ LoadHoldingsFails("w1")
    \/ ComputeStep("w1")
    \/ ComputeFails("w1")
    \/ FetchFile("w1")
    \/ WriteFile("w1")
    \/ Return("w1")
    \/ GetLatestSnapshotCall
    \/ GetAllSnapshotsCall

Spec == Init /\ [][Next]_vars

\* two processes refreshing against the same remote file, from a holdings.json
\* of cash alone or from the hand-edited one
ConcurrentHoldings ==
    {[stocks |-> <<>>, etfs |-> <<>>, crypto |-> <<>>,
      cash |-> <<[label |-> "Checking", amount |-> 125]>>],
     [stocks |-> <<[ticker |-> "AAPL"]>>, etfs |-> <<>>, crypto |-> <<>>, cash |-> <<>>]}

InitConcurrent ==
    /\ holdings \in ConcurrentHoldings
    /\ phase = "edit"
    /\ result = None
    /\ StoreInit

NextConcurrent ==
    \/ \E p \in Procs : LoadHoldings(p)
    \/ \E p \in Procs : LoadHoldingsFails(p)
    \/ \E p \in Procs : ComputeStep(p)
    \/ \E p \in Procs : ComputeFails(p)
    \/ \E p \in Procs : FetchFile(p)
    \/ \E p \in Procs : WriteFile(p)
    \/ \E p \in Procs : Return(p)

SpecConcurrent == InitConcurrent /\ [][NextConcurrent]_vars

\* the builder under the sidebar's edits
StoreIdle == UNCHANGED <<file, pc, loc, log, before, lastSaved, ret>>

InitBuilder ==
    /\ holdings = EmptyHoldings
    /\ phase = "edit"
    /\ result = None
    /\ StoreInit

NextBuilder ==
    \/ AddStock /\ StoreIdle
    \/ AddEtf /\ StoreIdle
    \/ AddCrypto /\ StoreIdle
    \/ AddCash /\ StoreIdle
    \/ EditCash /\ StoreIdle
    \/ DeleteStock /\ StoreIdle
    \/ DeleteEtf /\ StoreIdle
    \/ DeleteCrypto /\ StoreIdle
    \/ DeleteCash /\ StoreIdle
    \/ Compute /\ StoreIdle
    \/ Rerun /\ StoreIdle

SpecBuilder == InitBuilder /\ [][NextBuilder]_vars

\* ------------------------------------------------------------- properties

Stored(f) == {f.content[i] : i \in DOMAIN f.content}
DatesOf(snapshots) == {snapshots[i].date : i \in DOMAIN snapshots}
IsSortedByDate(s) == \A i, j \in DOMAIN s : i < j => s[i].date <= s[j].date

\* the content a GET of the log returned, read back from its version token
ContentRead(get) == IF get.status = 200 THEN get.sha[2] ELSE <<>>

RequestFailed(r) ==
    IF r.op = "GET" THEN r.status \notin {200, 404} ELSE r.status \notin {200, 201}

\* C1: the store holds exactly one snapshot for each date ever saved and none
\* for any other date, and the snapshot of a date carries the total_value and
\* breakdown of the most recent successful save for that date.
C1_OnePerDateLastWins ==
    \A d \in Dates :
        LET at == {i \in DOMAIN file.content : file.content[i].date = d}
        IN IF lastSaved[d] = None THEN at = {}
           ELSE /\ Cardinality(at) = 1
                /\ \A i \in at :
                    /\ file.content[i].total_value = lastSaved[d][1].total_value
                    /\ file.content[i].breakdown = lastSaved[d][1].breakdown

\* a save has just replaced the entry of a date it found stored with another
\* total, next to the entry of another date
C1_Witness ==
    /\ pc["w1"] = "done"
    /\ Len(file.content) = 2
    /\ \E s \in Stored(file), i \in DOMAIN ContentRead(log["w1"][1]) :
        /\ ContentRead(log["w1"][1])[i].date = s.date
        /\ ContentRead(log["w1"][1])[i].total_value # s.total_value
        /\ lastSaved[s.date][1].total_value = s.total_value

\* C2: get_all_snapshots returns every stored snapshot, ascending by date;
\* get_latest_snapshot returns the last element of that list, the stored
\* snapshot of the greatest date, and None when the store is empty or the
\* file does not exist (404).
C2_ReadsOrdered ==
    ret # None /\ ~ret.raised =>
        /\ ret.status = 404 => ret.seen = <<>>
        /\ ret.op = "all" =>
            /\ IsSortedByDate(ret.value)
            /\ Len(ret.value) = Len(ret.seen)
            /\ \A i \in DOMAIN ret.seen :
                Cardinality({j \in DOMAIN ret.value : ret.value[j] = ret.seen[i]})
                    = Cardinality({j \in DOMAIN ret.seen : ret.seen[j] = ret.seen[i]})
        /\ ret.op = "latest" =>
            IF ret.seen = <<>> THEN ret.value = None
            ELSE /\ Len(ret.value) = 1
                 /\ ret.value[1] = GetAllSnapshots(ret.seen)[Len(ret.seen)]
                 /\ ret.value[1] \in {ret.seen[i] : i \in DOMAIN ret.seen}
                 /\ \A i \in DOMAIN ret.seen : ret.seen[i].date <= ret.value[1].date

\* get_latest_snapshot has returned the later of two stored snapshots
C2_Witness ==
    /\ ret # None /\ ~ret.raised /\ ret.op = "latest"
    /\ Len(ret.seen) = 2
    /\ ret.value = <<ret.seen[2]>>
    /\ ret.seen[1].date < ret.seen[2].date

\* C5 as stated: a refresh in which any step failed (the load, a price fetch,
\* the computation, the GET or the PUT) leaves the stored list as it was when
\* the refresh began.
C5_AnyFailureLeavesStore ==
    \A p \in Procs :
        (pc[p] = "failed" \/ (pc[p] = "done" /\ loc[p].price_failed)) => file = before[p]

\* C5 amended: a refresh that raises (the load, the computation, the GET or
\* the PUT failed) leaves the stored list as it was when the refresh began.
\* A failed price fetch does not raise and is not covered.
C5_RaisedRefreshLeavesStore ==
    \A p \in Procs : pc[p] = "failed" => file = before[p]

\* a refresh whose PUT failed, today's entry stored since an earlier refresh
C5_Witness ==
    /\ pc["w1"] = "failed"
    /\ Len(log["w1"]) = 2
    /\ log["w1"][2].op = "PUT" /\ RequestFailed(log["w1"][2])
    /\ file.exists /\ file.content # <<>>

\* C7: a step that changes the store keeps every stored snapshot of a date
\* other than the one being saved as it is, no step removes a date from the
\* store, and a get_all_snapshots or get_latest_snapshot call leaves the store
\* unchanged.
C7_Frame ==
    [][/\ DatesOf(file.content) \subseteq DatesOf(file'.content)
       /\ file' # file =>
            \E p \in Procs :
                /\ pc[p] = "fetched" /\ pc'[p] = "done"
                /\ \A x \in Stored(file) : x.date # loc[p].date => x \in Stored(file')
                /\ \A x \in Stored(file') : x.date # loc[p].date => x \in Stored(file)
       /\ ret' # ret => file' = file]_vars

\* a save has just added or replaced one date next to the stored entry of
\* another, which a read had returned before
C7_Witness ==
    /\ pc["w1"] = "done"
    /\ Len(file.content) = 2
    /\ ret # None /\ ~ret.raised /\ Len(ret.seen) = 1
    /\ ret.seen[1] \in Stored(file)
    /\ ContentRead(log["w1"][1]) = ret.seen

\* C8: every PUT carries the token its own call's GET returned, none after a
\* 404; a PUT the remote applies replaces exactly the version its call read
\* and keeps the entries of all other dates; so the store always holds, for
\* every date, the most recent committed save, whichever process made it.
C8_TokenGuardsWrites ==
    /\ [](\A d \in Dates :
            lastSaved[d] # None =>
                \E x \in Stored(file) :
                    /\ x.date = d
                    /\ x.total_value = lastSaved[d][1].total_value
                    /\ x.breakdown = lastSaved[d][1].breakdown)
    /\ [][\A p \in Procs :
            pc[p] = "fetched" /\ pc'[p] # "fetched" =>
                LET get == log[p][Len(log[p])]
                    put == log'[p][Len(log'[p])]
                IN /\ get.op = "GET" /\ put.op = "PUT"
                   /\ put.sha = get.sha
                   /\ get.status = 404 => put.sha = None
                   /\ get.status = 200 => put.sha = Sha(loc[p].snapshots)
                   /\ ~RequestFailed(put) =>
                        /\ file = [exists |-> get.status = 200, content |-> loc[p].snapshots]
                        /\ \A x \in Stored(file) : x.date # loc[p].date => x \in Stored(file')
                   /\ RequestFailed(put) => file' = file /\ pc'[p] = "failed"]_vars

\* the stale writer was refused: its PUT met a version committed by the
\* other process after its GET, and that commit is still stored
C8_Witness ==
    \E p, q \in Procs :
        /\ p # q
        /\ pc[p] = "failed" /\ Len(log[p]) = 2 /\ log[p][2].status = 409
        /\ pc[q] = "done"
        /\ file.content # ContentRead(log[p][1])
        /\ Len(file.content) >= 1

\* C9: a save_snapshot call issues at most one GET and then at most one PUT;
\* no PUT follows a GET that failed with a status other than 404; a call with
\* a failed request has ended in an error, and it issues nothing more.
C9_NoRetry ==
    \A p \in Procs :
        /\ Len(log[p]) <= 2
        /\ Len(log[p]) >= 1 => log[p][1].op = "GET"
        /\ Len(log[p]) = 2 => log[p][2].op = "PUT" /\ ~RequestFailed(log[p][1])
        /\ (\E i \in DOMAIN log[p] : RequestFailed(log[p][i])) => pc[p] = "failed"
        /\ pc[p] = "done" =>
            /\ Len(log[p]) = 2
            /\ \A i \in DOMAIN log[p] : ~RequestFailed(log[p][i])
        /\ pc[p] = "fetched" => Len(log[p]) = 1
        /\ pc[p] \in {"idle", "loaded", "computed"} => log[p] = <<>>

\* a call whose GET succeeded and whose PUT failed has ended in an error
C9_Witness ==
    /\ pc["w1"] = "failed"
    /\ Len(log["w1"]) = 2
    /\ log["w1"][1].status = 200
    /\ log["w1"][2].status = 401

\* ------------------------------------------------- properties of the builder

Computed == phase = "computed"

\* every stock, ETF and crypto item has a price in the lookup results
AllPriced(r) ==
    /\ AllTickers(r.holdings) \subseteq DOMAIN r.prices
    /\ CryptoIds(r.holdings) \subseteq DOMAIN r.crypto_prices

\* sum over the priced items of price * quantity, each rounded to cents
PricedSharesSum(items, prices) ==
    SeqSum([i \in 1..Len(items) |->
              IF items[i].ticker \in DOMAIN prices
              THEN RoundCents(prices[items[i].ticker] * items[i].shares) ELSE 0])

PricedCryptoSum(items, prices) ==
    SeqSum([i \in 1..Len(items) |->
              IF items[i].id \in DOMAIN prices
              THEN RoundCents(prices[items[i].id] * items[i].amount) ELSE 0])

CashSum(items) == SeqSum([i \in 1..Len(items) |-> items[i].amount])

AssetsSum(r) ==
    PricedSharesSum(r.holdings.stocks, r.prices)
    + PricedSharesSum(r.holdings.etfs, r.prices)
    + PricedCryptoSum(r.holdings.crypto, r.crypto_prices)

RECURSIVE DictSum(_)
DictSum(d) ==
    IF DOMAIN d = {} THEN 0
    ELSE LET k == CHOOSE x \in DOMAIN d : TRUE
         IN d[k] + DictSum([x \in (DOMAIN d) \ {k} |-> d[x]])

\* C3 as stated: with every item priced, total_value is the sum of the rounded
\* price * quantity of the stocks, ETFs and crypto plus the sum of the cash
\* amounts.
C3_TotalIsPlainSum ==
    Computed /\ AllPriced(result) =>
        result.out.total = AssetsSum(result) + CashSum(result.holdings.cash)

\* C3 amended: with every item priced, total_value is that sum rounded to
\* cents.
C3_TotalIsRoundedSum ==
    Computed /\ AllPriced(result) =>
        result.out.total = RoundCents(AssetsSum(result) + CashSum(result.holdings.cash))

\* a priced stock rounded at the half cent, a priced coin and sub-cent cash
C3_Witness ==
    /\ Computed /\ AllPriced(result)
    /\ \E i \in DOMAIN result.holdings.stocks :
         (result.prices[result.holdings.stocks[i].ticker]
            * result.holdings.stocks[i].shares) % Cent # 0
    /\ result.holdings.crypto # <<>>
    /\ CashSum(result.holdings.cash) % Cent # 0
    /\ result.out.total > 0

\* C4: compute_snapshot returns for every outcome of the lookups; an item
\* whose ticker or id has no price puts 0 in the breakdown (the entry stays 0
\* unless a later item of the same key overwrites it) and adds 0 to its
\* category subtotal, which is the sum over the priced items alone; a
\* category none of whose symbols is priced has subtotal 0.
C4_MissingPriceIsZero ==
    Computed =>
        LET h == result.holdings
            b == result.out.breakdown
        IN /\ result.out.total \in Nat
           /\ \A i \in DOMAIN h.stocks :
                h.stocks[i].ticker \notin DOMAIN result.prices
                    => b.stocks[h.stocks[i].ticker] = 0
           /\ \A i \in DOMAIN h.etfs :
                h.etfs[i].ticker \notin DOMAIN result.prices
                    => b.etfs[h.etfs[i].ticker] = 0
           /\ \A i \in DOMAIN h.crypto :
                /\ h.crypto[i].id \notin DOMAIN result.crypto_prices
                /\ \A j \in DOMAIN h.crypto : j > i => h.crypto[j].symbol # h.crypto[i].symbol
                => b.crypto[h.crypto[i].symbol] = 0
           /\ b.category_totals.stocks = RoundCents(PricedSharesSum(h.stocks, result.prices))
           /\ b.category_totals.etfs = RoundCents(PricedSharesSum(h.etfs, result.prices))
           /\ b.category_totals.crypto
                = RoundCents(PricedCryptoSum(h.crypto, result.crypto_prices))
           /\ StockTickers(h) \cap DOMAIN result.prices = {} => b.category_totals.stocks = 0
           /\ EtfTickers(h) \cap DOMAIN result.prices = {} => b.category_totals.etfs = 0
           /\ CryptoIds(h) \cap DOMAIN result.crypto_prices = {} => b.category_totals.crypto = 0

\* one stock without a price beside a priced one, and coins whose lookup
\* returned nothing
C4_Witness ==
    /\ Computed
    /\ \E i, j \in DOMAIN result.holdings.stocks :
        /\ result.holdings.stocks[i].ticker \notin DOMAIN result.prices
        /\ result.holdings.stocks[j].ticker \in DOMAIN result.prices
        /\ result.out.breakdown.stocks[result.holdings.stocks[i].ticker] = 0
        /\ result.out.breakdown.stocks[result.holdings.stocks[j].ticker] > 0
    /\ result.holdings.crypto # <<>>
    /\ result.crypto_prices = EmptyDict
    /\ result.out.breakdown.category_totals.crypto = 0

\* C6 as stated: total_value equals the sum of the four category_totals,
\* rounded to cents.
C6_TotalIsSumOfCategoryTotals ==
    Computed =>
        LET c == result.out.breakdown.category_totals
        IN result.out.total = RoundCents(c.stocks + c.etfs + c.crypto + c.cash)

\* C10 as stated: every category total equals the sum of the per-asset values
\* stored under that category in the same breakdown, rounded to cents.
C10_CategoryTotalIsSumOfEntries ==
    Computed =>
        LET b == result.out.breakdown
        IN /\ b.category_totals.stocks = RoundCents(DictSum(b.stocks))
           /\ b.category_totals.etfs = RoundCents(DictSum(b.etfs))
           /\ b.category_totals.crypto = RoundCents(DictSum(b.crypto))
           /\ b.category_totals.cash = RoundCents(DictSum(b.cash))

====
